---- MODULE Spec2Model ----
(***************************************************************************)
(* Black-bar crop detector of the video_transcoder plugin:                 *)
(* detect_plack_bars(abspath, probe_data) in video_transcoder/lib/tools.py.*)
(*                                                                         *)
(* One detection run is modelled as a state machine.  Python values are    *)
(* represented as follows:                                                 *)
(*   - a Python string is the list of its ':'-separated fields             *)
(*     ("NO_CROP" is <<"NO_CROP">>, "4:3:0:0" is <<"4","3","0","0">>),     *)
(*     so string equality is equality of these lists and split(":") is     *)
(*     the identity on the representation;                                 *)
(*   - Python None is the empty list <<>> (no string splits to it);        *)
(*   - an optional value (a dict entry that may be absent, t_seconds) is   *)
(*     <<>> (absent / None) or <<v>> (present);                            *)
(*   - a float is a record [kind, tenths]: kind "num" carries the value    *)
(*     in tenths of a second, kind "nan" is float("nan").                  *)
(***************************************************************************)
EXTENDS Integers, Sequences, FiniteSets, TLC

(***************************************************************************)
(* Bounds of the model: the analyzer reports rectangles of width           *)
(* 1..MaxW and height MaxH-1..MaxH; a probed video frame is MaxW x MaxH.   *)
(***************************************************************************)
MaxW == 2

MaxH == 3

\* Known durations 0 .. MaxDurationTenths (tenths of a second) are scheduled.
MaxDurationTenths == 11000

\* Probed stream lists hold at most MaxStreams streams.
MaxStreams == 2

\* Analyzer reports under reduction hold at most MaxLines lines.
MaxLines == 2

\* A sample cap that is one too large.
MAX_SAMPLES_one_more == 7 + 1

\* tools.py:267
MAX_SAMPLES == 7

None == <<>>

NO_CROP == <<"NO_CROP">>

\* The crop string "w:h:x:y" that cropdetect prints for a rectangle.
CropStr(w, h, x, y) == <<ToString(w), ToString(h), ToString(x), ToString(y)>>

\* Rectangles the analyzer can report (centred in the MaxW x MaxH frame).
Rects == { CropStr(w, h, MaxW - w, MaxH - h) : w \in 1..MaxW, h \in (MaxH - 1)..MaxH }

(***************************************************************************)
(* Probe metadata (the probe_data dict).                                   *)
(***************************************************************************)
Num(t) == [kind |-> "num", tenths |-> t]

NaN == [kind |-> "nan", tenths |-> 0]

\* A text that float() rejects, e.g. "N/A".
BadText == [kind |-> "bad", tenths |-> 0]

Stream(type, w, h, cw, ch, dur) ==
    [codec_type |-> type, width |-> w, height |-> h,
     coded_width |-> cw, coded_height |-> ch, duration |-> dur]

VideoStream(dur) == Stream("video", <<MaxW>>, <<MaxH>>, <<>>, <<>>, dur)

AudioStream == Stream("audio", <<>>, <<>>, <<>>, <<>>, <<>>)

\* A video stream that carries only coded_width / coded_height.
CodedOnlyStream == Stream("video", <<>>, <<>>, <<MaxW>>, <<MaxH>>, <<>>)

\* A video stream with no dimension keys at all.
NoDimStream(dur) == Stream("video", <<>>, <<>>, <<>>, <<>>, dur)

Probe(hasFormat, fdur, hasTags, tag, hasStreams, streams) ==
    [has_format |-> hasFormat, duration |-> fdur,
     has_tags |-> hasTags, DURATION |-> tag,
     has_streams |-> hasStreams, streams |-> streams]

\* Known durations, in tenths of a second, that select every bracket.
FormatDurations == {450, 599, 600, 705, 850, 1000, 3300, 7000}

Probes ==
    \* format-level duration with one video stream
    { Probe(TRUE, <<Num(t)>>, FALSE, <<>>, TRUE, <<VideoStream(<<>>)>>) : t \in FormatDurations }
    \* no usable duration anywhere: the unknown-duration bracket
    \cup { Probe(TRUE, <<BadText>>, FALSE, <<>>, TRUE, <<AudioStream, VideoStream(<<BadText>>)>>) }
    \* duration from a stream, from a later video stream, and from the tag
    \cup { Probe(FALSE, <<>>, FALSE, <<>>, TRUE, <<NoDimStream(<<Num(1000)>>)>>),
           Probe(TRUE, <<>>, FALSE, <<>>, TRUE,
                 <<VideoStream(<<BadText>>), CodedOnlyStream, VideoStream(<<Num(600)>>)>>),
           Probe(TRUE, <<BadText>>, TRUE, <<<<Num(0), Num(10), Num(105)>>>>, TRUE, <<CodedOnlyStream>>) }
    \* no video stream at all, an empty stream list
    \cup { Probe(TRUE, <<Num(850)>>, FALSE, <<>>, TRUE, <<AudioStream>>),
           Probe(TRUE, <<Num(450)>>, FALSE, <<>>, TRUE, <<>>) }
    \* a duration text that float() accepts as not-a-number
    \cup { Probe(TRUE, <<NaN>>, FALSE, <<>>, TRUE, <<VideoStream(<<>>)>>) }
    \* probe data without a 'streams' key
    \cup { Probe(TRUE, <<Num(t)>>, FALSE, <<>>, FALSE, <<>>) : t \in {450, 850} }

(***************************************************************************)
(* Probe metadata for the resolver and the scheduler examined on their     *)
(* own (ProbeSpec).                                                        *)
(***************************************************************************)
\* An audio stream that has a duration of its own.
TimedAudioStream == Stream("audio", <<>>, <<>>, <<>>, <<>>, <<Num(3300)>>)

StreamKinds ==
    { TimedAudioStream, VideoStream(<<>>), VideoStream(<<BadText>>),
      VideoStream(<<Num(850)>>), VideoStream(<<Num(1000)>>) }

StreamLists == UNION { [1..n -> StreamKinds] : n \in 0..MaxStreams }

\* The parts of a DURATION tag split at ':' : too few, unparsable, h:m:s, 4 parts
TagParts ==
    { <<Num(10), Num(105)>>,
      <<Num(0), BadText, Num(105)>>,
      <<Num(0), Num(10), Num(105)>>,
      <<Num(10), Num(0), Num(0), Num(70)>> }

\* <<has_tags, DURATION>>
TagKinds == { <<FALSE, <<>>>>, <<TRUE, <<>>>> } \cup { <<TRUE, <<t>>>> : t \in TagParts }

ResolverProbes ==
    { Probe(TRUE, fd, tk[1], tk[2], TRUE, ss) :
        fd \in { <<>>, <<BadText>>, <<Num(450)>>, <<NaN>> }, tk \in TagKinds, ss \in StreamLists }
    \cup { Probe(FALSE, <<>>, FALSE, <<>>, TRUE, ss) : ss \in StreamLists }

SchedulerProbes ==
    { Probe(TRUE, <<Num(t)>>, FALSE, <<>>, TRUE, <<VideoStream(<<>>)>>) : t \in 0..MaxDurationTenths }

(***************************************************************************)
(* Pure helpers.                                                           *)
(***************************************************************************)
\* dict.get(key, default) on an optional entry
Get(opt, default) == IF opt = <<>> THEN default ELSE opt[1]

\* tools.py:116-128
get_video_stream_data(streams) ==
    LET vids == { i \in 1..Len(streams) : streams[i].codec_type = "video" }
    IN  IF vids = {}
        THEN <<0, 0>>
        ELSE LET i == CHOOSE j \in vids : \A k \in vids : j <= k
                 s == streams[i]
             IN  <<Get(s.width, Get(s.coded_width, 0)),
                   Get(s.height, Get(s.coded_height, 0))>>

\* float(x) succeeds (no TypeError / ValueError)
FloatOk(x) == x.kind \in {"num", "nan"}

\* h * 3600 + m * 60 + s on floats
HmsSeconds(h, m, s) ==
    IF h.kind = "nan" \/ m.kind = "nan" \/ s.kind = "nan"
    THEN NaN
    ELSE Num(h.tenths * 3600 + m.tenths * 60 + s.tenths)

\* The resolver trying the DURATION tag before the stream durations.
get_video_duration_tag_first(p) ==
    LET vdurs == { i \in 1..Len(p.streams) :
                     /\ p.streams[i].codec_type = "video"
                     /\ p.streams[i].duration # <<>>
                     /\ FloatOk(p.streams[i].duration[1]) }
        parts == Get(p.DURATION, <<>>)
    IN  IF p.has_format /\ p.duration # <<>> /\ FloatOk(p.duration[1])
        THEN <<p.duration[1]>>
        ELSE IF /\ p.has_format /\ p.has_tags /\ p.DURATION # <<>>
                /\ Len(parts) >= 3
                /\ \A i \in 1..3 : FloatOk(parts[i])
        THEN <<HmsSeconds(parts[1], parts[2], parts[3])>>
        ELSE IF p.has_streams /\ vdurs # {}
        THEN <<p.streams[CHOOSE j \in vdurs : \A k \in vdurs : j <= k].duration[1]>>
        ELSE None

\* The resolver leaving the stream loop after the first video stream whether
\* or not its duration parsed.
get_video_duration_first_video_only(p) ==
    LET vids == { i \in 1..Len(p.streams) : p.streams[i].codec_type = "video" }
        first == CHOOSE j \in vids : \A k \in vids : j <= k
        parts == Get(p.DURATION, <<>>)
    IN  IF p.has_format /\ p.duration # <<>> /\ FloatOk(p.duration[1])
        THEN <<p.duration[1]>>
        ELSE IF /\ p.has_streams /\ vids # {}
                /\ p.streams[first].duration # <<>>
                /\ FloatOk(p.streams[first].duration[1])
        THEN <<p.streams[first].duration[1]>>
        ELSE IF /\ p.has_format /\ p.has_tags /\ p.DURATION # <<>>
                /\ Len(parts) >= 3
                /\ \A i \in 1..3 : FloatOk(parts[i])
        THEN <<HmsSeconds(parts[1], parts[2], parts[3])>>
        ELSE None

\* tools.py:156-188; the result is None (<<>>) or <<float>>
get_video_duration_seconds_from_probe(p) ==
    LET vdurs == { i \in 1..Len(p.streams) :
                     /\ p.streams[i].codec_type = "video"
                     /\ p.streams[i].duration # <<>>
                     /\ FloatOk(p.streams[i].duration[1]) }
        parts == Get(p.DURATION, <<>>)
    IN  IF p.has_format /\ p.duration # <<>> /\ FloatOk(p.duration[1])
        THEN <<p.duration[1]>>
        ELSE IF p.has_streams /\ vdurs # {}
        THEN <<p.streams[CHOOSE j \in vdurs : \A k \in vdurs : j <= k].duration[1]>>
        ELSE IF /\ p.has_format /\ p.has_tags /\ p.DURATION # <<>>
                /\ Len(parts) >= 3
                /\ \A i \in 1..3 : FloatOk(parts[i])
        THEN <<HmsSeconds(parts[1], parts[2], parts[3])>>
        ELSE None

\* int(x) for a finite float: truncation toward zero
IntOf(t) == IF t >= 0 THEN t \div 10 ELSE -((-t) \div 10)

Max(a, b) == IF a >= b THEN a ELSE b

RECURSIVE StartsFrom_no_advance(_, _, _, _, _)
\* The while loop without "s += step_between_starts": the same start again.
StartsFrom_no_advance(s, max_start, step, count, limit) ==
    IF s <= max_start /\ count < limit
    THEN <<s>> \o StartsFrom_no_advance(s, max_start, step, count + 1, limit)
    ELSE <<>>

RECURSIVE StartsFrom_strict(_, _, _, _, _)
\* The while loop with "s < max_start": a start at max_start itself is dropped.
StartsFrom_strict(s, max_start, step, count, limit) ==
    IF s < max_start /\ count < limit
    THEN <<s>> \o StartsFrom_strict(s + step, max_start, step, count + 1, limit)
    ELSE <<>>

RECURSIVE StartsFrom(_, _, _, _, _)
\* the while loop of tools.py:230-233
StartsFrom(s, max_start, step, count, limit) ==
    IF s <= max_start /\ count < limit
    THEN <<s>> \o StartsFrom(s + step, max_start, step, count + 1, limit)
    ELSE <<>>

\* The generator without the 1 s trailing buffer: max_start = int(total) - window.
gen_starts_known_no_buffer(total, first_start, step_between_starts, window, limit) ==
    IF total.kind = "nan"
    THEN [raises |-> TRUE, items |-> <<>>]
    ELSE [raises |-> FALSE,
          items |-> StartsFrom(Max(0, first_start),
                               Max(0, IntOf(total.tenths) - window),
                               step_between_starts, 0, limit)]

\* tools.py:221-233; int(nan) raises when the generator is first advanced
gen_starts_known(total, first_start, step_between_starts, window, limit) ==
    IF total.kind = "nan"
    THEN [raises |-> TRUE, items |-> <<>>]
    ELSE [raises |-> FALSE,
          items |-> StartsFrom(Max(0, first_start),
                               Max(0, IntOf(total.tenths) - window - 1),
                               step_between_starts, 0, limit)]

\* The short-file test comparing with half the threshold.
Lt_half(f, secs) == f.kind = "num" /\ f.tenths < (secs \div 2) * 10

\* The bracket test excluding its upper end.
Le_strict(f, secs) == f.kind = "num" /\ f.tenths < secs * 10

\* total_duration < secs, total_duration <= secs (false for nan)
Lt(f, secs) == f.kind = "num" /\ f.tenths < secs * 10

Le(f, secs) == f.kind = "num" /\ f.tenths <= secs * 10

\* The schedule whose unknown-duration bracket starts at 30 s like the
\* 60-300 s bracket instead of at 0 s.
Schedule_unknown_from_30(total_duration) ==
    IF total_duration = None
    THEN <<10, [raises |-> FALSE, items |-> [i \in 1..MAX_SAMPLES |-> 30 + (i - 1) * 30]]>>
    ELSE IF Le(total_duration[1], 5 * 60)
    THEN <<10, gen_starts_known(total_duration[1], 30, 10 + 5, 10, MAX_SAMPLES)>>
    ELSE IF Le(total_duration[1], 10 * 60)
    THEN <<20, gen_starts_known(total_duration[1], 90, 20 + 30, 20, MAX_SAMPLES)>>
    ELSE <<20, gen_starts_known(total_duration[1], 300, 20 + 90, 20, MAX_SAMPLES)>>

\* tools.py:283-323: <<sample_len, starts_iter>> for the resolved duration
Schedule(total_duration) ==
    IF total_duration = None
    THEN <<10, [raises |-> FALSE, items |-> [i \in 1..MAX_SAMPLES |-> 0 + (i - 1) * 30]]>>
    ELSE IF Le(total_duration[1], 5 * 60)
    THEN <<10, gen_starts_known(total_duration[1], 30, 10 + 5, 10, MAX_SAMPLES)>>
    ELSE IF Le(total_duration[1], 10 * 60)
    THEN <<20, gen_starts_known(total_duration[1], 90, 20 + 30, 20, MAX_SAMPLES)>>
    ELSE <<20, gen_starts_known(total_duration[1], 300, 20 + 90, 20, MAX_SAMPLES)>>

(***************************************************************************)
(* The analyzer report and its reduction.                                  *)
(* A report is a list of lines; a line records whether it carries the      *)
(* "[Parsed_cropdetect...]" prefix and which "crop=w:h:x:y" it ends with   *)
(* (<<>> when it has none).                                                *)
(***************************************************************************)
Line(tagged, crop) == [tagged |-> tagged, crop |-> crop]

Lines ==
    { Line(FALSE, <<>>), Line(TRUE, <<>>) }
    \cup { Line(TRUE, <<r>>) : r \in Rects }
    \cup { Line(FALSE, <<CropStr(1, MaxH - 1, MaxW - 1, 1)>>) }

Reports ==
    { <<>> } \cup { <<l>> : l \in Lines }
    \cup { <<Line(TRUE, <<CropStr(1, MaxH - 1, MaxW - 1, 1)>>), l>> : l \in Lines }

\* cropdetect rounds the detected width and height down to a multiple of its
\* "round" option: an area smaller than that is reported as crop=0:0:x:y.
ZeroSizeReport == <<Line(TRUE, <<CropStr(0, 0, MaxW, MaxH)>>)>>

\* The reports an analyzer run on the probed file can produce.  For a source
\* with known dimensions a zero-size rectangle is one more rectangle unlike
\* the frame, as those of Reports are; it is drawn where it is a case of its
\* own, for a source probed with a dimension of 0.
AnalyzerReports(src_w, src_h) ==
    IF src_w = "0" \/ src_h = "0" THEN Reports \cup {ZeroSizeReport} ELSE Reports

\* What cropdetect prints when it found no picture: negative width and height.
SignedCrop == <<ToString(0 - MaxW), ToString(0 - MaxH), ToString(MaxW), ToString(MaxH)>>

\* Lines and reports for the reduction examined on its own.
ParseLines == Lines \cup { Line(TRUE, <<SignedCrop>>) }

ParseTexts == UNION { [1..n -> ParseLines] : n \in 0..MaxLines }

\* The texts that \d+ matches, among the fields that occur
DigitStrings == { ToString(n) : n \in 0..(MaxW + MaxH) }

\* The pattern without its "[Parsed_cropdetect...]" prefix: crop=(\d+:\d+:\d+:\d+)
Matches_untagged(l) ==
    /\ l.crop # <<>>
    /\ \A i \in 1..4 : l.crop[1][i] \in DigitStrings

\* The regular expression of tools.py:192 matches the line
Matches(l) ==
    /\ l.tagged
    /\ l.crop # <<>>
    /\ \A i \in 1..4 : l.crop[1][i] \in DigitStrings

\* The reduction returning the first match (m[0]) instead of the last.
parse_first_cropdetect(text) ==
    LET m == SelectSeq(text, Matches)
    IN  IF m # <<>> THEN m[1].crop[1] ELSE None

\* tools.py:190-193
parse_last_cropdetect(text) ==
    LET m == SelectSeq(text, Matches)
    IN  IF m # <<>> THEN m[Len(m)].crop[1] ELSE None

\* tools.py:218-219
ffmpeg_sample(raw) ==
    LET crop == parse_last_cropdetect(raw)
    IN  IF crop # None THEN crop ELSE NO_CROP

\* Number of occurrences of v in a list (list.count, Counter)
Count(v, s) == Cardinality({ i \in 1..Len(s) : s[i] = v })

\* _quorum asking for 3 agreeing values (cnt >= 3) instead of 2.
quorum_unanimous(last_three) ==
    IF Len(last_three) < 2
    THEN None
    ELSE IF Len(last_three) = 2
    THEN IF last_three[1] = last_three[2] /\ last_three[1] # NO_CROP
         THEN last_three[1]
         ELSE None
    ELSE IF last_three[1] # NO_CROP /\ Count(last_three[1], last_three) >= 3
    THEN last_three[1]
    ELSE None

\* tools.py:235-257
quorum(last_three) ==
    IF Len(last_three) < 2
    THEN None
    ELSE IF Len(last_three) = 2
    THEN IF last_three[1] = last_three[2] /\ last_three[1] # NO_CROP
         THEN last_three[1]
         ELSE None
    ELSE IF \E i \in 1..3 : last_three[i] # NO_CROP /\ Count(last_three[i], last_three) >= 2
    THEN last_three[CHOOSE i \in 1..3 :
                       last_three[i] # NO_CROP /\ Count(last_three[i], last_three) >= 2]
    ELSE None

\* The normalisation comparing the split fields with the integers
\* vid_width / vid_height instead of their str(): a str never equals an int.
normalize_unconverted(observed, src_w, src_h) == observed

\* The normalisation taking a source of unknown size (a dimension of 0) as
\* matching every rectangle.
normalize_unknown_as_full(observed, src_w, src_h) ==
    IF observed # NO_CROP /\ (src_w = "0" \/ src_h = "0" \/ (observed[1] = src_w /\ observed[2] = src_h))
    THEN NO_CROP
    ELSE observed

\* tools.py:338-346
normalize(observed, src_w, src_h) ==
    IF observed # NO_CROP /\ observed[1] = src_w /\ observed[2] = src_h
    THEN NO_CROP
    ELSE observed

\* The rolling window evicting the newest element (pop()) instead of the
\* oldest (pop(0)).
roll_pop_newest(last_three, observed) ==
    LET appended == Append(last_three, observed)
    IN  IF Len(appended) > 3 THEN SubSeq(appended, 1, 3) ELSE appended

\* The rolling window evicting its second-oldest element (pop(1)).
roll_evict_second(last_three, observed) ==
    LET appended == Append(last_three, observed)
    IN  IF Len(appended) > 3
        THEN <<appended[1]>> \o SubSeq(appended, 3, Len(appended))
        ELSE appended

\* tools.py:352-355
roll(last_three, observed) ==
    LET appended == Append(last_three, observed)
    IN  IF Len(appended) > 3 THEN Tail(appended) ELSE appended

Decision(fired, value, rule) == [fired |-> fired, value |-> value, rule |-> rule]

\* The rules without the early stop after 2 identical observations.
decide_no_early_stop(last_three) ==
    IF Len(last_three) = 3 /\ quorum(last_three) # None
    THEN Decision(TRUE, quorum(last_three), "quorum_crop")
    ELSE IF Len(last_three) = 3 /\ Count(NO_CROP, last_three) >= 2
    THEN Decision(TRUE, None, "quorum_no_crop")
    ELSE Decision(FALSE, None, "none")

\* The rules without the NO_CROP majority check of tools.py:376-378.
decide_no_crop_unchecked(last_three) ==
    IF Len(last_three) = 2 /\ last_three[1] = last_three[2]
    THEN Decision(TRUE, IF last_three[1] = NO_CROP THEN None ELSE last_three[1], "early")
    ELSE IF Len(last_three) = 3 /\ quorum(last_three) # None
    THEN Decision(TRUE, quorum(last_three), "quorum_crop")
    ELSE Decision(FALSE, None, "none")

\* tools.py:360-378: the decision rules evaluated after each observation
decide(last_three) ==
    IF Len(last_three) = 2 /\ last_three[1] = last_three[2]
    THEN Decision(TRUE, IF last_three[1] = NO_CROP THEN None ELSE last_three[1], "early")
    ELSE IF Len(last_three) = 3 /\ quorum(last_three) # None
    THEN Decision(TRUE, quorum(last_three), "quorum_crop")
    ELSE IF Len(last_three) = 3 /\ Count(NO_CROP, last_three) >= 2
    THEN Decision(TRUE, None, "quorum_no_crop")
    ELSE Decision(FALSE, None, "none")

\* The fallback deciding by the newest retained observation instead of the
\* recorded 3rd sample.
fallback_newest(third_sample_value, last_three) ==
    IF third_sample_value # None
    THEN Decision(TRUE, IF last_three[Len(last_three)] = NO_CROP
                        THEN None ELSE last_three[Len(last_three)],
                  "third_sample")
    ELSE LET crops == { i \in 1..Len(last_three) : last_three[i] # NO_CROP }
         IN  IF crops # {}
             THEN Decision(TRUE, last_three[CHOOSE i \in crops : \A k \in crops : k <= i],
                           "best_effort")
             ELSE Decision(TRUE, None, "no_fallback")

\* The fallback scanning last_three oldest-first (without reversed()).
fallback_oldest_first(third_sample_value, last_three) ==
    IF third_sample_value # None
    THEN Decision(TRUE, IF third_sample_value = NO_CROP THEN None ELSE third_sample_value,
                  "third_sample")
    ELSE LET crops == { i \in 1..Len(last_three) : last_three[i] # NO_CROP }
         IN  IF crops # {}
             THEN Decision(TRUE, last_three[CHOOSE i \in crops : \A k \in crops : i <= k],
                           "best_effort")
             ELSE Decision(TRUE, None, "no_fallback")

\* tools.py:383-404
fallback(third_sample_value, last_three) ==
    IF third_sample_value # None
    THEN Decision(TRUE, IF third_sample_value = NO_CROP THEN None ELSE third_sample_value,
                  "third_sample")
    ELSE LET crops == { i \in 1..Len(last_three) : last_three[i] # NO_CROP }
         IN  IF crops # {}
             THEN Decision(TRUE, last_three[CHOOSE i \in crops : \A k \in crops : k <= i],
                           "best_effort")
             ELSE Decision(TRUE, None, "no_fallback")

\* The short path returning the crop without comparing it with the frame.
short_decision_unchecked(observed, src_w, src_h) ==
    IF observed # NO_CROP THEN observed ELSE None

\* tools.py:275-281
short_decision(observed, src_w, src_h) ==
    IF observed # NO_CROP /\ ~(observed[1] = src_w /\ observed[2] = src_h)
    THEN observed
    ELSE None

\* A decision that is logged but not returned: the loop goes on.
after_sample_no_return(fired) == "loop"

\* Where control goes after an observation was evaluated (the return
\* statements of tools.py:360-378 leave the loop).
after_sample(fired) == IF fired THEN "returned" ELSE "loop"

(***************************************************************************)
(* State of one detection run.                                             *)
(***************************************************************************)
VARIABLES
    pc,                 \* "probe", "short_wait", "loop", "wait", "returned", "raised"
    probe_data,         \* the argument
    src_w, src_h,       \* str(vid_width), str(vid_height)
    total_duration,
    sample_len,
    starts_iter,        \* what the generator has still to yield
    last_three,
    third_sample_value,
    samples_taken,
    in_flight,          \* the <<ss, t_seconds>> the analyzer is running on, or None
    decision,           \* the returned value
    rule,               \* which rule produced it (the logged "Decision:" line)
    calls,              \* history: every <<ss, t_seconds>> an analyzer was invoked with
    raws,               \* history: what each _ffmpeg_sample call returned
    obs,                \* history: every observation appended to last_three
    output_text,        \* the analyzer output whose reduction is examined on its
                        \* own (ParseSpec); None in a detection run
    returncode,         \* the exit status of the analyzer process that wrote it
    suspended           \* the call frame of a second, concurrent run while this one
                        \* executes (PairSpec): <<frame>>; None for a run on its own

vars == <<pc, probe_data, src_w, src_h, total_duration, sample_len, starts_iter,
          last_three, third_sample_value, samples_taken, in_flight, decision, rule,
          calls, raws, obs, output_text, returncode, suspended>>

\* The locals of detect_plack_bars before its first statement
Fresh ==
    /\ src_w = "" /\ src_h = ""
    /\ total_duration = None
    /\ sample_len = 0
    /\ starts_iter = [raises |-> FALSE, items |-> <<>>]
    /\ last_three = <<>>
    /\ third_sample_value = None
    /\ samples_taken = 0
    /\ in_flight = None
    /\ decision = None
    /\ rule = "none"
    /\ calls = <<>>
    /\ raws = <<>>
    /\ obs = <<>>

Init ==
    /\ pc = "probe"
    /\ probe_data \in Probes
    /\ output_text = None
    /\ returncode = 0
    /\ suspended = None
    /\ Fresh

\* tools.py:262: get_video_stream_data(None) iterates over None
ProbeRaises ==
    /\ pc = "probe"
    /\ ~probe_data.has_streams
    /\ pc' = "raised"
    /\ UNCHANGED <<suspended, returncode, output_text, probe_data, src_w, src_h, total_duration, sample_len, starts_iter,
                   last_three, third_sample_value, samples_taken, in_flight, decision,
                   rule, calls, raws, obs>>

\* tools.py:262-273: short file, the single full-file pass is started
ProbeShort ==
    /\ pc = "probe"
    /\ probe_data.has_streams
    /\ LET dims == get_video_stream_data(probe_data.streams)
           dur == get_video_duration_seconds_from_probe(probe_data)
       IN  /\ dur # None /\ Lt(dur[1], 60)
           /\ src_w' = ToString(dims[1])
           /\ src_h' = ToString(dims[2])
           /\ total_duration' = dur
    /\ in_flight' = <<0, None>>
    /\ calls' = Append(calls, <<0, None>>)
    /\ pc' = "short_wait"
    /\ UNCHANGED <<suspended, returncode, output_text, probe_data, sample_len, starts_iter, last_three, third_sample_value,
                   samples_taken, decision, rule, raws, obs>>

\* tools.py:262-330: the schedule is chosen and the loop state initialised
ProbeSchedule ==
    /\ pc = "probe"
    /\ probe_data.has_streams
    /\ LET dims == get_video_stream_data(probe_data.streams)
           dur == get_video_duration_seconds_from_probe(probe_data)
       IN  /\ ~(dur # None /\ Lt(dur[1], 60))
           /\ src_w' = ToString(dims[1])
           /\ src_h' = ToString(dims[2])
           /\ total_duration' = dur
           /\ sample_len' = Schedule(dur)[1]
           /\ starts_iter' = Schedule(dur)[2]
    /\ last_three' = <<>>
    /\ third_sample_value' = None
    /\ samples_taken' = 0
    /\ pc' = "loop"
    /\ UNCHANGED <<suspended, returncode, output_text, probe_data, in_flight, decision, rule, calls, raws, obs>>

\* tools.py:273-281
ShortReturns ==
    /\ pc = "short_wait"
    /\ \E raw \in AnalyzerReports(src_w, src_h) :
         LET observed == ffmpeg_sample(raw)
         IN  /\ raws' = Append(raws, observed)
             /\ decision' = short_decision(observed, src_w, src_h)
    /\ rule' = "short"
    /\ in_flight' = None
    /\ pc' = "returned"
    /\ UNCHANGED <<suspended, returncode, output_text, probe_data, src_w, src_h, total_duration, sample_len, starts_iter,
                   last_three, third_sample_value, samples_taken, calls, obs>>

\* tools.py:332: advancing the generator evaluates int(total), which raises for nan
PullRaises ==
    /\ pc = "loop"
    /\ starts_iter.raises
    /\ pc' = "raised"
    /\ UNCHANGED <<suspended, returncode, output_text, probe_data, src_w, src_h, total_duration, sample_len, starts_iter,
                   last_three, third_sample_value, samples_taken, in_flight, decision,
                   rule, calls, raws, obs>>

\* tools.py:332-336: the next window is pulled and the analyzer started on it
PullWindow ==
    /\ pc = "loop"
    /\ ~starts_iter.raises
    /\ starts_iter.items # <<>>
    /\ samples_taken < MAX_SAMPLES
    /\ in_flight' = <<Head(starts_iter.items), <<sample_len>>>>
    /\ calls' = Append(calls, <<Head(starts_iter.items), <<sample_len>>>>)
    /\ starts_iter' = [starts_iter EXCEPT !.items = Tail(@)]
    /\ pc' = "wait"
    /\ UNCHANGED <<suspended, returncode, output_text, probe_data, src_w, src_h, total_duration, sample_len, last_three,
                   third_sample_value, samples_taken, decision, rule, raws, obs>>

\* tools.py:336-378: the analyzer returns; normalise, record, evaluate the rules
AnalyzerReturns ==
    /\ pc = "wait"
    /\ \E raw \in AnalyzerReports(src_w, src_h) :
         LET observed == normalize(ffmpeg_sample(raw), src_w, src_h)
             window == roll(last_three, observed)
             d == decide(window)
         IN  /\ raws' = Append(raws, ffmpeg_sample(raw))
             /\ samples_taken' = samples_taken + 1
             /\ third_sample_value' =
                  IF samples_taken + 1 = 3 THEN observed ELSE third_sample_value
             /\ last_three' = window
             /\ obs' = Append(obs, observed)
             /\ decision' = d.value
             /\ rule' = d.rule
             /\ pc' = after_sample(d.fired)
    /\ in_flight' = None
    /\ UNCHANGED <<suspended, returncode, output_text, probe_data, src_w, src_h, total_duration, sample_len, starts_iter,
                   calls>>

\* tools.py:332-334 and 383-405: the schedule is consumed, the fallbacks decide
Exhausted ==
    /\ pc = "loop"
    /\ ~starts_iter.raises
    /\ ~(starts_iter.items # <<>> /\ samples_taken < MAX_SAMPLES)
    /\ LET d == fallback(third_sample_value, last_three)
       IN  /\ decision' = d.value
           /\ rule' = d.rule
    /\ pc' = "returned"
    /\ UNCHANGED <<suspended, returncode, output_text, probe_data, src_w, src_h, total_duration, sample_len, starts_iter,
                   last_three, third_sample_value, samples_taken, in_flight, calls,
                   raws, obs>>

Next ==
    \/ ProbeRaises
    \/ ProbeShort
    \/ ProbeSchedule
    \/ ShortReturns
    \/ PullRaises
    \/ PullWindow
    \/ AnalyzerReturns
    \/ Exhausted

Spec == Init /\ [][Next]_vars

\* The run under the proviso that it keeps executing and that every analyzer
\* invocation returns: pipe.communicate() of tools.py:214 comes back, and the
\* interpreter executes the next statement.  In every state at most one kind
\* of step is possible, so weak fairness of the whole step suffices.
LiveSpec == Init /\ [][Next]_vars /\ WF_vars(Next)

(***************************************************************************)
(* The resolver, the scheduler and the full-file pass on their own, for    *)
(* every known duration up to MaxDurationTenths and every combination of   *)
(* duration sources.                                                       *)
(***************************************************************************)
ProbeInit ==
    /\ pc = "probe"
    /\ probe_data \in ResolverProbes \cup SchedulerProbes
    /\ output_text = None
    /\ returncode = 0
    /\ suspended = None
    /\ Fresh

ProbeNext ==
    \/ ProbeShort
    \/ ProbeSchedule
    \/ ShortReturns

ProbeSpec == ProbeInit /\ [][ProbeNext]_vars

(***************************************************************************)
(* Two detection runs for different files executing concurrently, e.g. in  *)
(* two worker threads.  Every name detect_plack_bars assigns is a local of *)
(* the call (tools.py:262-267, 284-330), its helpers are closures of the   *)
(* call, and the module holds no mutable state; so each call has a frame   *)
(* of its own.  The variables above are the frame of the run that is       *)
(* executing, suspended holds the frame of the other one, and Switch hands *)
(* the processor over at any point.                                        *)
(***************************************************************************)
\* The frame of the executing run
Frame ==
    [pc |-> pc,
     probe_data |-> probe_data,
     src_w |-> src_w,
     src_h |-> src_h,
     total_duration |-> total_duration,
     sample_len |-> sample_len,
     starts_iter |-> starts_iter,
     last_three |-> last_three,
     third_sample_value |-> third_sample_value,
     samples_taken |-> samples_taken,
     in_flight |-> in_flight,
     decision |-> decision,
     rule |-> rule,
     calls |-> calls,
     raws |-> raws,
     obs |-> obs]

\* The frame of a call that has not executed its first statement
FreshFrame(p) ==
    [pc |-> "probe",
     probe_data |-> p,
     src_w |-> "",
     src_h |-> "",
     total_duration |-> None,
     sample_len |-> 0,
     starts_iter |-> [raises |-> FALSE, items |-> <<>>],
     last_three |-> <<>>,
     third_sample_value |-> None,
     samples_taken |-> 0,
     in_flight |-> None,
     decision |-> None,
     rule |-> "none",
     calls |-> <<>>,
     raws |-> <<>>,
     obs |-> <<>>]

\* The two files: 85 s (3 windows) for one run; 60 s (2 windows) or 45 s
\* (single full-file pass) for the other
PairFirst == Probe(TRUE, <<Num(850)>>, FALSE, <<>>, TRUE, <<VideoStream(<<>>)>>)

PairSecond ==
    { Probe(TRUE, <<Num(t)>>, FALSE, <<>>, TRUE, <<VideoStream(<<>>)>>) : t \in {450, 600} }

\* A window list as it would be if it were one object shared by all calls.
resume_last_three_shared(frame, running) == running

\* tools.py:328: last_three is created by the call and bound to its local name;
\* the resumed run finds the list it left
resume_last_three(frame, running) == frame.last_three

PairInit ==
    /\ pc = "probe"
    /\ probe_data = PairFirst
    /\ output_text = None
    /\ returncode = 0
    /\ \E p \in PairSecond : suspended = <<FreshFrame(p)>>
    /\ Fresh

\* The executing run is suspended and the other one resumed
Switch ==
    /\ suspended # None
    /\ pc' = suspended[1].pc
    /\ probe_data' = suspended[1].probe_data
    /\ src_w' = suspended[1].src_w
    /\ src_h' = suspended[1].src_h
    /\ total_duration' = suspended[1].total_duration
    /\ sample_len' = suspended[1].sample_len
    /\ starts_iter' = suspended[1].starts_iter
    /\ third_sample_value' = suspended[1].third_sample_value
    /\ samples_taken' = suspended[1].samples_taken
    /\ in_flight' = suspended[1].in_flight
    /\ decision' = suspended[1].decision
    /\ rule' = suspended[1].rule
    /\ calls' = suspended[1].calls
    /\ raws' = suspended[1].raws
    /\ obs' = suspended[1].obs
    /\ last_three' = resume_last_three(suspended[1], last_three)
    /\ suspended' = <<Frame>>
    /\ UNCHANGED <<output_text, returncode>>

PairNext ==
    \/ ProbeShort
    \/ ProbeSchedule
    \/ ShortReturns
    \/ PullWindow
    \/ AnalyzerReturns
    \/ Exhausted
    \/ Switch

PairSpec == PairInit /\ [][PairNext]_vars

(***************************************************************************)
(* The reduction of one analyzer report on its own.                        *)
(***************************************************************************)
ParseInit ==
    /\ pc = "parse"
    /\ probe_data = Probe(FALSE, <<>>, FALSE, <<>>, TRUE, <<>>)
    /\ output_text \in ParseTexts
    /\ returncode \in {0, 1}
    /\ suspended = None
    /\ Fresh

\* tools.py:214-219: the decoded output is reduced to a crop string or NO_CROP;
\* pipe.returncode is not read
ParseReport ==
    /\ pc = "parse"
    /\ raws' = Append(raws, ffmpeg_sample(output_text))
    /\ pc' = "parsed"
    /\ UNCHANGED <<suspended, returncode, output_text, probe_data, src_w, src_h, total_duration, sample_len,
                   starts_iter, last_three, third_sample_value, samples_taken,
                   in_flight, decision, rule, calls, obs>>

ParseNext == ParseReport

ParseSpec == ParseInit /\ [][ParseNext]_vars

(***************************************************************************)
(* Vocabulary of the properties.                                           *)
(***************************************************************************)
\* The 3 most recent of a list of at least 3 observations
Last3(s) == SubSeq(s, Len(s) - 2, Len(s))

PairwiseDistinct(s) == \A i, j \in 1..Len(s) : i # j => s[i] # s[j]

\* The decision an observation stands for: None for NoCrop, else the rectangle
AsDecision(v) == IF v = NO_CROP THEN None ELSE v

\* The run took the single full-file pass of the < 60 s bracket
ShortFile == total_duration # None /\ Lt(total_duration[1], 60)

\* The source frame dimensions of the probed file, as numbers
SourceDims == get_video_stream_data(probe_data.streams)

\* v is a rectangle as wide and as high as the source frame
IsFullFrame(v) ==
    /\ probe_data.has_streams
    /\ Len(v) = 4
    /\ v[1] = ToString(SourceDims[1])
    /\ v[2] = ToString(SourceDims[2])

\* The most recent observation of s that is not NoCrop, None when there is none
MostRecentCrop(s) ==
    LET crops == { i \in 1..Len(s) : s[i] # NO_CROP }
    IN  IF crops = {} THEN None ELSE s[CHOOSE i \in crops : \A k \in crops : k <= i]

(***************************************************************************)
(* C1. Early exit: whenever the first two normalized observations of a run *)
(* are identical, the run has returned after exactly 2 analyzer            *)
(* invocations, with None if the value is NoCrop and that rectangle        *)
(* otherwise; no third invocation was issued.                              *)
(***************************************************************************)
C1_EarlyExit ==
    (Len(obs) >= 2 /\ obs[1] = obs[2]) =>
        /\ pc = "returned"
        /\ Len(obs) = 2
        /\ Len(calls) = 2
        /\ in_flight = None
        /\ decision = AsDecision(obs[1])

\* Two identical crops decided while a third window was still scheduled.
C1_Witness ==
    /\ pc = "returned"
    /\ Len(obs) = 2 /\ obs[1] = obs[2] /\ obs[1] # NO_CROP
    /\ decision = obs[1]
    /\ starts_iter.items # <<>>

(***************************************************************************)
(* C2. Rolling quorum (crop): at every step n >= 3 that is reached, if a   *)
(* non-NoCrop rectangle occurs at least twice among the 3 most recent      *)
(* observations, the run has returned exactly that rectangle at step n.    *)
(***************************************************************************)
C2_QuorumCrop ==
    Len(obs) >= 3 =>
        \A i \in 1..3 :
            (Last3(obs)[i] # NO_CROP /\ Count(Last3(obs)[i], Last3(obs)) >= 2) =>
                /\ pc = "returned"
                /\ decision = Last3(obs)[i]
                /\ Len(calls) = Len(obs)

\* [Crop(A), Crop(B), Crop(A)] decided Crop(A) at step 3.
C2_Witness ==
    /\ pc = "returned"
    /\ Len(obs) = 3
    /\ obs[1] = obs[3] /\ obs[1] # obs[2]
    /\ obs[1] # NO_CROP /\ obs[2] # NO_CROP
    /\ decision = obs[1]

(***************************************************************************)
(* C3. Rolling quorum (no crop): at every step n >= 3 that is reached, if  *)
(* NoCrop occurs at least twice among the 3 most recent observations (so   *)
(* no rectangle occurs twice), the run has returned None at step n and     *)
(* samples no further.                                                     *)
(***************************************************************************)
C3_QuorumNoCrop ==
    (Len(obs) >= 3 /\ Count(NO_CROP, Last3(obs)) >= 2) =>
        /\ pc = "returned"
        /\ decision = None
        /\ Len(calls) = Len(obs)
        /\ in_flight = None

\* A NoCrop majority reached after the 3rd step, with windows left over.
C3_Witness ==
    /\ pc = "returned"
    /\ Len(obs) >= 4
    /\ Count(NO_CROP, Last3(obs)) = 2
    /\ decision = None
    /\ starts_iter.items # <<>>

(***************************************************************************)
(* C4. No-quorum continuation: at every step n >= 3 at which the 3 most    *)
(* recent observations are pairwise distinct, no sampling rule decides     *)
(* (the run returns there only when the schedule is used up), the rolling  *)
(* window is those 3 observations, and while a window is left the only     *)
(* step is the next analyzer invocation, on the next scheduled window.     *)
(***************************************************************************)
C4_NoDecision ==
    (Len(obs) >= 3 /\ PairwiseDistinct(Last3(obs))) =>
        /\ rule \notin {"early", "quorum_crop", "quorum_no_crop"}
        /\ last_three = Last3(obs)
        /\ pc = "returned" => starts_iter.items = <<>>

C4_NextInvocation ==
    (/\ pc = "loop" /\ Len(obs) >= 3 /\ PairwiseDistinct(Last3(obs))
     /\ starts_iter.items # <<>>) =>
        /\ pc' = "wait"
        /\ calls' = Append(calls, <<Head(starts_iter.items), <<sample_len>>>>)
        /\ last_three' = last_three

C4_NoQuorumContinuation == [][C4_NextInvocation]_vars /\ []C4_NoDecision

\* [Crop(A), Crop(B), NoCrop]: undecided at step 3, the 4th sample requested.
C4_Witness ==
    /\ pc = "wait"
    /\ Len(calls) = 4
    /\ Len(obs) = 3 /\ PairwiseDistinct(obs)
    /\ obs[3] = NO_CROP
    /\ rule = "none"

(***************************************************************************)
(* C5. Exhaustion fallback 1: a run that returned after n >= 3             *)
(* observations whose last 3 are pairwise distinct (no sampling rule       *)
(* fired) has consumed its schedule and decided by the 3rd observation     *)
(* taken alone: None if it is NoCrop, otherwise its rectangle.             *)
(***************************************************************************)
C5_FallbackThirdSample ==
    (pc = "returned" /\ Len(obs) >= 3 /\ PairwiseDistinct(Last3(obs))) =>
        /\ starts_iter.items = <<>>
        /\ decision = AsDecision(obs[3])

\* 7 observations, the 3rd a rectangle that the rolling window no longer holds.
C5_Witness ==
    /\ pc = "returned"
    /\ Len(obs) = 7
    /\ obs[3] # NO_CROP
    /\ \A i \in 5..7 : obs[i] # obs[3]
    /\ decision = obs[3]

(***************************************************************************)
(* C6. Exhaustion fallback 2: a run of the sampling loop that returned     *)
(* with fewer than 3 observations and without the early exit returns the   *)
(* most recent observation that is not NoCrop, and None if there is none.  *)
(***************************************************************************)
C6_FallbackMostRecent ==
    (/\ pc = "returned" /\ ~ShortFile
     /\ Len(obs) < 3
     /\ ~(Len(obs) = 2 /\ obs[1] = obs[2])) =>
        decision = MostRecentCrop(obs)

\* Two different rectangles and no third window: the newer one is returned.
C6_Witness ==
    /\ pc = "returned"
    /\ Len(obs) = 2
    /\ obs[1] # NO_CROP /\ obs[2] # NO_CROP /\ obs[1] # obs[2]
    /\ decision = obs[2]

(***************************************************************************)
(* C7. Normalization: every analyzer-reported rectangle as wide and as     *)
(* high as the source frame is recorded as NoCrop; neither the rolling     *)
(* window, nor the 3rd-sample slot, nor the value returned (in any         *)
(* bracket, the full-file pass included) is ever such a rectangle.         *)
(***************************************************************************)
C7_Normalization ==
    /\ \A i \in 1..Len(obs) : IsFullFrame(raws[i]) => obs[i] = NO_CROP
    /\ \A i \in 1..Len(last_three) : ~IsFullFrame(last_three[i])
    /\ ~IsFullFrame(third_sample_value)
    /\ ~IsFullFrame(decision)

\* The 3rd report was the full frame and went into the fallback slot as NoCrop.
C7_Witness ==
    /\ Len(obs) >= 3
    /\ IsFullFrame(raws[3])
    /\ third_sample_value = NO_CROP
    /\ last_three[3] = NO_CROP

(***************************************************************************)
(* C8. Sample cap: the number of analyzer invocations of a run never       *)
(* exceeds 7, for every duration (known or unknown) and all reports.       *)
(***************************************************************************)
C8_SampleCap == Len(calls) <= 7

\* A run that used all 7 invocations.
C8_Witness == pc = "returned" /\ Len(calls) = 7 /\ Len(raws) = 7

(***************************************************************************)
(* C9. Cancellation: once a decision rule has fired the run has returned   *)
(* with no analyzer invocation in flight, and from then on no window is    *)
(* pulled from the schedule and no analyzer invocation is issued.          *)
(***************************************************************************)
C9_Finished == rule # "none" => (pc = "returned" /\ in_flight = None)

C9_NothingAfter ==
    rule # "none" =>
        (calls' = calls /\ starts_iter' = starts_iter /\ in_flight' = in_flight)

C9_Cancellation == []C9_Finished /\ [][C9_NothingAfter]_vars

\* A sampling rule fired while scheduled windows were left: they stay unused.
C9_Witness ==
    /\ rule \in {"early", "quorum_crop", "quorum_no_crop"}
    /\ pc = "returned"
    /\ starts_iter.items # <<>>
    /\ Len(calls) = Len(obs)

(***************************************************************************)
(* C10. The detector never fails: for every probe metadata object and      *)
(* every analyzer outcome the run returns a decision and never raises.     *)
(***************************************************************************)
C10_NeverRaises == pc # "raised"

(***************************************************************************)
(* C11. Short-file schedule: for every known duration d < 60 exactly one   *)
(* window is scheduled and analyzed, starting at offset 0 with no window   *)
(* length, and no second analyzer invocation is made.                      *)
(***************************************************************************)
C11_KnownShort ==
    /\ total_duration # None
    /\ total_duration[1].kind = "num"
    /\ total_duration[1].tenths < 60 * 10

C11_ShortSchedule ==
    C11_KnownShort =>
        /\ pc \in {"short_wait", "returned"}
        /\ calls = << <<0, None>> >>
        /\ starts_iter.items = <<>>
        /\ samples_taken = 0
        /\ Len(raws) = (IF pc = "returned" THEN 1 ELSE 0)
        /\ pc = "returned" => in_flight = None

\* A 59.9 s file returned after its single full-file pass.
C11_Witness ==
    /\ C11_KnownShort
    /\ total_duration[1].tenths = 599
    /\ pc = "returned"
    /\ calls = << <<0, None>> >>
    /\ Len(raws) = 1

(***************************************************************************)
(* C12. Short-file decision: for every known duration d < 60 the single    *)
(* observation decides the run: its rectangle when it is a crop different  *)
(* from the full source frame, None when it is NoCrop or full-frame; the   *)
(* exhaustion fallback gives the same for a one-window sequence.           *)
(***************************************************************************)
C12_ShortDecision ==
    (C11_KnownShort /\ pc = "returned") =>
        /\ decision = (IF raws[1] = NO_CROP \/ IsFullFrame(raws[1]) THEN None ELSE raws[1])
        /\ decision = fallback(None, roll(<<>>, normalize(raws[1], src_w, src_h))).value

\* A short file whose single pass reported a crop smaller than the frame ...
C12_Witness ==
    /\ C11_KnownShort /\ pc = "returned"
    /\ raws[1] # NO_CROP /\ ~IsFullFrame(raws[1])
    /\ decision = raws[1]

\* ... and one whose single pass reported the full frame.
C12_WitnessFullFrame ==
    /\ C11_KnownShort /\ pc = "returned"
    /\ IsFullFrame(raws[1])
    /\ decision = None

(***************************************************************************)
(* C13. Unknown duration: the schedule is exactly the 7 windows starting   *)
(* at 0, 30, 60, 90, 120, 150, 180, each of length 10; the windows already *)
(* analyzed are its first ones in that order, the ones still scheduled are *)
(* the rest, and the run stops short of the 7th only on a decision.        *)
(***************************************************************************)
C13_UnknownSchedule ==
    (total_duration = None /\ pc \in {"loop", "wait", "returned"}) =>
        /\ sample_len = 10
        /\ Len(calls) + Len(starts_iter.items) = 7
        /\ \A i \in 1..Len(calls) : calls[i] = <<30 * (i - 1), <<10>>>>
        /\ \A j \in 1..Len(starts_iter.items) :
               starts_iter.items[j] = 30 * (Len(calls) + j - 1)
        /\ pc = "returned" =>
               \/ rule \in {"early", "quorum_crop", "quorum_no_crop"}
               \/ Len(calls) = 7

\* An unknown-duration run that analyzed all 7 windows, the last one at 180 s.
C13_Witness ==
    /\ total_duration = None /\ pc = "returned"
    /\ Len(calls) = 7
    /\ calls[1] = <<0, <<10>>>>
    /\ calls[7] = <<180, <<10>>>>

(***************************************************************************)
(* C14. 60 s - 300 s bracket: for every known duration d with              *)
(* 60 <= d <= 300 every scheduled window has length 10, the first start is *)
(* 30, consecutive starts differ by exactly 15, there are at most 7        *)
(* windows and every window satisfies start + length <= d - 1.             *)
(***************************************************************************)
\* The resolved duration is a number of seconds in lo .. hi (given in tenths)
KnownBetween(lo, hi) ==
    /\ total_duration # None
    /\ total_duration[1].kind = "num"
    /\ lo <= total_duration[1].tenths
    /\ total_duration[1].tenths <= hi

\* The schedule starts at first, advances by step and leaves every window of
\* the given length 1 s short of the end
Progression(first, step, length) ==
    LET s == starts_iter.items
    IN  /\ ~starts_iter.raises
        /\ s # <<>>
        /\ s[1] = first
        /\ \A i \in 1..(Len(s) - 1) : s[i + 1] - s[i] = step
        /\ Len(s) <= 7
        /\ \A i \in 1..Len(s) : (s[i] + length) * 10 <= total_duration[1].tenths - 10

C15_WitnessOver600 ==
    /\ KnownBetween(6001, 6001)
    /\ sample_len = 20
    /\ starts_iter.items = <<300, 410, 520>>

(***************************************************************************)
(* Vocabulary of the duration sources of the probed file.  Each is the set *)
(* of values the source can contribute: empty when the source is absent or *)
(* does not parse.                                                         *)
(***************************************************************************)
Parses(opt) == opt # <<>> /\ opt[1].kind # "bad"

\* (1) the format-level duration field
FormatValues ==
    IF probe_data.has_format /\ Parses(probe_data.duration)
    THEN {probe_data.duration[1]} ELSE {}

\* The positions of the video streams, and of those whose duration parses
VideoAt == { i \in 1..Len(probe_data.streams) : probe_data.streams[i].codec_type = "video" }

ParsableVideoAt == { i \in VideoAt : Parses(probe_data.streams[i].duration) }

\* (2) the duration field of a video stream
StreamValues == { probe_data.streams[i].duration[1] : i \in ParsableVideoAt }

\* (3) the format-level h:m:s DURATION tag
TagValues ==
    IF /\ probe_data.has_format /\ probe_data.has_tags /\ probe_data.DURATION # <<>>
       /\ Len(probe_data.DURATION[1]) >= 3
       /\ \A i \in 1..3 : probe_data.DURATION[1][i].kind # "bad"
    THEN { HmsSeconds(probe_data.DURATION[1][1], probe_data.DURATION[1][2],
                      probe_data.DURATION[1][3]) }
    ELSE {}

\* The resolver has run
Resolved == pc # "probe" /\ pc # "parse" /\ pc # "parsed"

\* The resolved duration is a value of the given source
ResolvedFrom(values) == total_duration # None /\ total_duration[1] \in values

(***************************************************************************)
(* C17. Duration resolution order: the resolved duration is the value of   *)
(* the first source that parses, in the order (1) format duration field,   *)
(* (2) video stream duration field, (3) format h:m:s duration tag; a       *)
(* lower-priority source is used only when every higher one is absent or   *)
(* unparsable, and the result is unknown exactly when all three fail.      *)
(***************************************************************************)
C17_ResolutionOrder ==
    Resolved =>
        /\ FormatValues # {} => ResolvedFrom(FormatValues)
        /\ (FormatValues = {} /\ StreamValues # {}) => ResolvedFrom(StreamValues)
        /\ (FormatValues = {} /\ StreamValues = {} /\ TagValues # {}) =>
               ResolvedFrom(TagValues)
        /\ total_duration = None <=>
               (FormatValues = {} /\ StreamValues = {} /\ TagValues = {})

\* Format field unparsable, a video stream without a parsable duration and a
\* well-formed tag: the tag's 70.5 s are the duration.
C17_Witness ==
    /\ Resolved
    /\ probe_data.duration = <<BadText>>
    /\ VideoAt # {} /\ StreamValues = {}
    /\ TagValues # {}
    /\ total_duration = <<Num(705)>>

(***************************************************************************)
(* C18 as stated: when the format duration is unavailable and the first    *)
(* video stream has an absent or unparsable duration, no later video       *)
(* stream supplies the duration: the result is the tag's value, or unknown *)
(* when the tag fails too.                                                 *)
(***************************************************************************)
\* The first video stream exists and its duration is absent or unparsable
FirstVideoFails ==
    /\ VideoAt # {}
    /\ (CHOOSE i \in VideoAt : \A k \in VideoAt : i <= k) \notin ParsableVideoAt

C18_FirstVideoOnly ==
    (Resolved /\ FormatValues = {} /\ FirstVideoFails) =>
        IF TagValues # {} THEN ResolvedFrom(TagValues) ELSE total_duration = None

(***************************************************************************)
(* C18 as the code has it: when the format duration is unavailable, the    *)
(* stream-level duration is that of the first video stream, in list order, *)
(* whose duration parses, even after video streams whose duration is       *)
(* absent or unparsable; the tag is consulted only when no video stream    *)
(* has a parsable duration.                                                *)
(***************************************************************************)
C18_FirstParsableVideo ==
    (Resolved /\ FormatValues = {}) =>
        /\ ParsableVideoAt # {} =>
               total_duration =
                   <<probe_data.streams[CHOOSE i \in ParsableVideoAt :
                                           \A k \in ParsableVideoAt : i <= k].duration[1]>>
        /\ (ParsableVideoAt = {} /\ TagValues # {}) => ResolvedFrom(TagValues)

\* The first video stream's duration does not parse, the second one's does
\* and is the resolved duration, although a well-formed tag is present.
C18_Witness ==
    /\ Resolved /\ FormatValues = {}
    /\ FirstVideoFails
    /\ ParsableVideoAt # {}
    /\ TagValues # {}
    /\ total_duration = <<Num(850)>>

(***************************************************************************)
(* Vocabulary of the analyzer report.                                      *)
(***************************************************************************)
\* Line i of the report ends with a crop=W:H:X:Y of unsigned integers
HasCropText(i) == output_text[i].crop # <<>> /\ output_text[i].crop[1] # SignedCrop

\* Line i is a crop report of the cropdetect filter
CropReportAt(i) == output_text[i].tagged /\ HasCropText(i)

(***************************************************************************)
(* C19. Report reduction: for every analyzer report text the raw           *)
(* observation is the last crop rectangle reported in the text, later      *)
(* reports overriding earlier ones, and it is NoCrop when the text holds   *)
(* no crop report at all, whatever the exit status of the analyzer.        *)
(***************************************************************************)
C19_LastReport ==
    pc = "parsed" =>
        LET reports == { i \in 1..Len(output_text) : CropReportAt(i) }
        IN  /\ Len(raws) = 1
            /\ reports = {} => raws[1] = NO_CROP
            /\ \A i \in reports :
                   (\A k \in reports : k <= i) => raws[1] = output_text[i].crop[1]

\* Two crop reports with different rectangles: the later one is the observation.
C19_Witness ==
    /\ pc = "parsed"
    /\ Len(output_text) = 2
    /\ CropReportAt(1) /\ CropReportAt(2)
    /\ output_text[1].crop # output_text[2].crop
    /\ raws = <<output_text[2].crop[1]>>

\* The analyzer exited abnormally without any crop line.
C19_WitnessAbnormalExit ==
    /\ pc = "parsed"
    /\ returncode = 1
    /\ \A i \in 1..Len(output_text) : output_text[i].crop = <<>>
    /\ raws = <<NO_CROP>>

(***************************************************************************)
(* C20 as stated: every report text that contains at least one substring   *)
(* crop=W:H:X:Y of unsigned integers yields a Crop observation for the     *)
(* last such occurrence, whatever surrounds or precedes it on the line.    *)
(***************************************************************************)
C20_AnyCropSubstring ==
    pc = "parsed" =>
        \A i \in 1..Len(output_text) :
            (HasCropText(i) /\ \A k \in (i + 1)..Len(output_text) : ~HasCropText(k))
                => raws[1] = output_text[i].crop[1]

(***************************************************************************)
(* C20 as the code has it: a crop=W:H:X:Y substring counts only on a line  *)
(* where the "[Parsed_cropdetect...]" prefix precedes it.  A text holding  *)
(* such a line yields a Crop observation taken from such a line; a         *)
(* crop= substring on a line without the prefix neither yields nor         *)
(* supersedes an observation, and a text with no prefixed line yields      *)
(* NoCrop.                                                                 *)
(***************************************************************************)
C20_PrefixRequired ==
    pc = "parsed" =>
        /\ (\E i \in 1..Len(output_text) : CropReportAt(i)) <=> raws[1] # NO_CROP
        /\ raws[1] # NO_CROP =>
               \E i \in 1..Len(output_text) :
                   /\ CropReportAt(i)
                   /\ raws[1] = output_text[i].crop[1]
                   /\ \A k \in (i + 1)..Len(output_text) : ~output_text[k].tagged \/ ~HasCropText(k)

\* A crop report followed by a line with another crop= but without the
\* prefix: the observation stays the report's rectangle.
C20_Witness ==
    /\ pc = "parsed"
    /\ Len(output_text) = 2
    /\ CropReportAt(1)
    /\ ~output_text[2].tagged /\ HasCropText(2)
    /\ output_text[2].crop # output_text[1].crop
    /\ raws = <<output_text[1].crop[1]>>

\* A text whose only crop= substring is on a line without the prefix.
C20_WitnessNoPrefix ==
    /\ pc = "parsed"
    /\ Len(output_text) = 1
    /\ ~output_text[1].tagged /\ HasCropText(1)
    /\ raws = <<NO_CROP>>

(***************************************************************************)
(* C21. In-order evaluation: within one run the windows are analyzed in    *)
(* the scheduler's order of strictly increasing start offsets and their    *)
(* observations folded in that order; the invocation for window k+1 is     *)
(* issued only after the observation for window k has been recorded and    *)
(* the decision rules evaluated on it without firing, so at most one       *)
(* invocation is in flight and no later window is evaluated before an      *)
(* earlier one.                                                            *)
(***************************************************************************)
C21_OneInFlight ==
    /\ \A i, j \in 1..Len(calls) : i < j => calls[i][1] < calls[j][1]
    /\ Len(raws) <= Len(calls) /\ Len(calls) <= Len(raws) + 1
    /\ in_flight # None <=> Len(calls) = Len(raws) + 1
    /\ in_flight # None => in_flight = calls[Len(calls)]
    /\ \A j \in 1..Len(starts_iter.items) :
           \A i \in 1..Len(calls) : calls[i][1] < starts_iter.items[j]

\* A step that issues an invocation finds every earlier one answered and
\* evaluated; a step that records an observation records the one of the
\* window in flight, which is the latest window issued, at the end.
C21_Step ==
    /\ Len(calls') > Len(calls) =>
           /\ in_flight = None
           /\ Len(raws) = Len(calls)
           /\ rule = "none"
           /\ calls' = Append(calls, in_flight')
    /\ raws' # raws =>
           /\ in_flight = calls[Len(calls)]
           /\ Len(raws') = Len(calls)
           /\ SubSeq(raws', 1, Len(raws)) = raws
           /\ calls' = calls
    /\ obs' # obs =>
           /\ Len(obs') = Len(obs) + 1
           /\ SubSeq(obs', 1, Len(obs)) = obs
           /\ last_three'[Len(last_three')] = obs'[Len(obs')]

C21_InOrder == []C21_OneInFlight /\ [][C21_Step]_vars

\* The 3rd window is in flight after two observations that did not decide.
C21_Witness ==
    /\ pc = "wait"
    /\ Len(calls) = 3 /\ Len(obs) = 2
    /\ in_flight = calls[3]
    /\ calls[1][1] < calls[2][1] /\ calls[2][1] < calls[3][1]

(***************************************************************************)
(* C23. Return contract of the docstring: a crop string is returned only   *)
(* if a non-trivial crop quorum was reached, i.e. at least two             *)
(* observations taken in the run agree on that crop; otherwise None is     *)
(* returned.                                                               *)
(***************************************************************************)
C23_ReturnContract ==
    (pc = "returned" /\ decision # None) =>
        \E i, j \in 1..Len(obs) : i # j /\ obs[i] = decision /\ obs[j] = decision

(***************************************************************************)
(* C24. Rolling window: after every sampling step the rolling window holds *)
(* at most 3 observations and equals, in order, the min(n, 3) most         *)
(* recently produced normalized observations of the run; when a 4th or     *)
(* later observation arrives exactly the oldest element is evicted.        *)
(***************************************************************************)
C24_Window ==
    /\ Len(last_three) <= 3
    /\ Len(last_three) = (IF Len(obs) < 3 THEN Len(obs) ELSE 3)
    /\ \A k \in 1..Len(last_three) :
           last_three[k] = obs[Len(obs) - Len(last_three) + k]

C24_Eviction ==
    (obs' # obs /\ Len(last_three) = 3) =>
        last_three' = <<last_three[2], last_three[3], obs'[Len(obs')]>>

C24_RollingWindow == []C24_Window /\ [][C24_Eviction]_vars

\* After the 4th observation the window is observations 2..4 and the first
\* observation, unlike each of them, is gone.
C24_Witness ==
    /\ Len(obs) = 4
    /\ last_three = <<obs[2], obs[3], obs[4]>>
    /\ \A k \in 2..4 : obs[k] # obs[1]

(***************************************************************************)
(* C25 as stated: when the source frame width or height is 0 the           *)
(* full-frame check never matches: no reported rectangle is normalized to  *)
(* NoCrop and every parsed rectangle is recorded as a Crop observation.    *)
(***************************************************************************)
\* The probed source has a width or height of 0
DegenerateSource == probe_data.has_streams /\ (SourceDims[1] = 0 \/ SourceDims[2] = 0)

C25_NeverNormalized ==
    DegenerateSource =>
        /\ \A i \in 1..Len(obs) : raws[i] # NO_CROP => obs[i] = raws[i]
        /\ (ShortFile /\ pc = "returned" /\ raws[1] # NO_CROP) => decision = raws[1]

(***************************************************************************)
(* C25 as the code has it: when the source frame width or height is 0     *)
(* the full-frame check matches exactly the reported rectangles whose      *)
(* width and height fields equal the probed ones as text, 0 included,     *)
(* which are normalized to NoCrop; every parsed rectangle with another     *)
(* width or height is recorded as a Crop observation.                      *)
(***************************************************************************)
\* The rectangle's width and height fields are those of the degenerate source
ZeroSize(v) == v[1] = ToString(SourceDims[1]) /\ v[2] = ToString(SourceDims[2])

C25_OnlyZeroSize ==
    DegenerateSource =>
        /\ \A i \in 1..Len(obs) :
               raws[i] # NO_CROP =>
                   obs[i] = (IF ZeroSize(raws[i]) THEN NO_CROP ELSE raws[i])
        /\ (ShortFile /\ pc = "returned" /\ raws[1] # NO_CROP) =>
               decision = (IF ZeroSize(raws[1]) THEN None ELSE raws[1])

\* A source without dimensions: a proper rectangle was recorded as reported
\* and a zero-size one as NoCrop.
C25_Witness ==
    /\ DegenerateSource
    /\ Len(obs) >= 2
    /\ raws[1] # NO_CROP /\ ~ZeroSize(raws[1]) /\ obs[1] = raws[1]
    /\ raws[2] # NO_CROP /\ ZeroSize(raws[2]) /\ obs[2] = NO_CROP

(***************************************************************************)
(* C26. Continuation invariant: whenever the engine pulls another window   *)
(* after n >= 2 observations no value is repeated in the rolling window:   *)
(* after 2 observations the two differ, after n >= 3 the 3 retained ones   *)
(* are pairwise distinct, so at most one of them is NoCrop.                *)
(***************************************************************************)
C26_NoRepeat ==
    /\ Len(last_three) = (IF Len(obs) = 2 THEN 2 ELSE 3)
    /\ \A i, j \in 1..Len(last_three) : i < j => last_three[i] # last_three[j]
    /\ Cardinality({ i \in 1..Len(last_three) : last_three[i] = NO_CROP }) <= 1

C26_Pull == (Len(calls') > Len(calls) /\ Len(obs) >= 2) => C26_NoRepeat

C26_Continuation ==
    /\ [][C26_Pull]_vars
    /\ []((pc = "wait" /\ Len(obs) >= 2) => C26_NoRepeat)

\* A 5th window in flight: 4 observations, the last 3 pairwise distinct with
\* one NoCrop among them.
C26_Witness ==
    /\ pc = "wait" /\ Len(obs) = 4 /\ Len(calls) = 5
    /\ C26_NoRepeat
    /\ \E i \in 1..3 : last_three[i] = NO_CROP

(***************************************************************************)
(* C27. Every quorum decision taken at a step n >= 3 is decided by the     *)
(* newest observation: the decided value (the rectangle, or NoCrop for a   *)
(* None decision) equals observation n and also observation n-1 or n-2; a  *)
(* value that recurs only at distance 3 or more (A, B, C, A) never forms a *)
(* quorum.                                                                 *)
(***************************************************************************)
\* The run has just returned by the 2-of-3 rule
QuorumDecided == pc = "returned" /\ rule \in {"quorum_crop", "quorum_no_crop"}

C27_NewestDecides ==
    LET n == Len(obs)
    IN  /\ QuorumDecided =>
               /\ n >= 3
               /\ obs[n] = (IF decision = None THEN NO_CROP ELSE decision)
               /\ obs[n] = obs[n - 1] \/ obs[n] = obs[n - 2]
        /\ (n >= 4 /\ obs[n] # obs[n - 1] /\ obs[n] # obs[n - 2]) => ~QuorumDecided

\* A quorum at step 4 between observations 4 and 2 ...
C27_Witness ==
    /\ QuorumDecided
    /\ Len(obs) = 4
    /\ obs[4] = obs[2] /\ obs[4] # obs[3]
    /\ decision = obs[4]

\* ... and A, B, C, A: the run goes on.
C27_WitnessDistance3 ==
    /\ Len(obs) = 4 /\ pc = "loop"
    /\ obs[4] = obs[1]
    /\ obs[4] # obs[2] /\ obs[4] # obs[3]

(***************************************************************************)
(* C28. Schedule length by duration: the schedule is never empty; it has   *)
(* exactly 1 window iff the duration is known and < 60, exactly 2 windows  *)
(* iff 60 <= d < 71, at least 3 windows for every known d >= 71 and        *)
(* exactly 7 for an unknown duration; so fewer than 3 windows, and with    *)
(* them exhaustion with fewer than 3 observations, occur only for known    *)
(* durations below 71 seconds.                                             *)
(***************************************************************************)
\* The windows of the run: those analyzed and those still scheduled
Windows == Len(calls) + Len(starts_iter.items)

C28_ScheduleLength ==
    (Resolved /\ (total_duration = None \/ total_duration[1].kind = "num")) =>
        /\ Windows >= 1
        /\ Windows = 1 <=> (total_duration # None /\ total_duration[1].tenths < 600)
        /\ Windows = 2 <=> KnownBetween(600, 709)
        /\ KnownBetween(710, MaxDurationTenths) => Windows >= 3
        /\ total_duration = None => Windows = 7
        /\ Windows < 3 => (total_duration # None /\ total_duration[1].tenths < 710)

\* 70.9 s: two windows; one tenth more and there are three.
C28_Witness ==
    /\ KnownBetween(709, 709)
    /\ starts_iter.items = <<30, 45>>
    /\ Windows = 2

C28_WitnessThree ==
    /\ KnownBetween(710, 710)
    /\ starts_iter.items = <<30, 45, 60>>

(***************************************************************************)
(* C29. The last-resort fallback (decide None because no 3rd sample was    *)
(* recorded and no retained observation is a crop) is unreachable: in      *)
(* every run that exhausts its windows without a rule firing, a 3rd        *)
(* observation was recorded or the retained observations hold at least     *)
(* one value other than NoCrop.                                            *)
(***************************************************************************)
\* The run returned from the code after the loop
ExhaustedReturn == pc = "returned" /\ rule \in {"third_sample", "best_effort", "no_fallback"}

C29_LastResortUnreachable ==
    /\ rule # "no_fallback"
    /\ ExhaustedReturn =>
           \/ Len(obs) >= 3 /\ third_sample_value = obs[3]
           \/ \E i \in 1..Len(last_three) : last_three[i] # NO_CROP

\* Two windows, a rectangle and then NoCrop: exhausted without a 3rd sample,
\* the rectangle is what keeps the last resort away.
C29_Witness ==
    /\ ExhaustedReturn
    /\ third_sample_value = None
    /\ Len(obs) = 2 /\ obs[1] # NO_CROP /\ obs[2] = NO_CROP
    /\ decision = obs[1]

(***************************************************************************)
(* C30. Termination: provided every analyzer invocation eventually         *)
(* returns, every detection run eventually reaches a decided state (a      *)
(* rectangle or None), for every duration and every sequence of            *)
(* observations.                                                           *)
(***************************************************************************)
C30_Termination == <>(pc = "returned")

\* What the code does guarantee: every run ends, decided or by an exception,
\* after at most 7 sampling steps.
C30_EndsDecidedOrRaised == <>(pc \in {"returned", "raised"})

(***************************************************************************)
(* Vocabulary of concurrent runs.                                          *)
(***************************************************************************)
\* The frames of the runs in progress
Frames == {Frame} \cup (IF suspended = None THEN {} ELSE {suspended[1]})

\* The starts of the windows a frame has analyzed followed by those it has
\* still scheduled
AllStarts(f) == [i \in 1..Len(f.calls) |-> f.calls[i][1]] \o f.starts_iter.items

\* The frame is what a run executing alone on the frame's own file, given the
\* frame's own analyzer reports, has after as many steps
AsAlone(f) ==
    IF f.pc = "probe"
    THEN f = FreshFrame(f.probe_data)
    ELSE LET dims == get_video_stream_data(f.probe_data.streams)
             dur == get_video_duration_seconds_from_probe(f.probe_data)
             n == Len(f.obs)
         IN  /\ f.src_w = ToString(dims[1]) /\ f.src_h = ToString(dims[2])
             /\ f.total_duration = dur
             /\ IF dur # None /\ Lt(dur[1], 60)
                THEN /\ f.calls = << <<0, None>> >>
                     /\ f.obs = <<>> /\ f.last_three = <<>>
                     /\ f.samples_taken = 0 /\ f.third_sample_value = None
                     /\ f.pc = "returned" =>
                            f.decision = short_decision(f.raws[1], f.src_w, f.src_h)
                ELSE /\ f.sample_len = Schedule(dur)[1]
                     /\ AllStarts(f) = Schedule(dur)[2].items
                     /\ n = Len(f.raws)
                     /\ \A i \in 1..n : f.obs[i] = normalize(f.raws[i], f.src_w, f.src_h)
                     /\ f.samples_taken = n
                     /\ f.last_three = (IF n <= 3 THEN f.obs ELSE SubSeq(f.obs, n - 2, n))
                     /\ f.third_sample_value = (IF n >= 3 THEN f.obs[3] ELSE None)
                     /\ f.pc = "returned" =>
                            f.decision = (IF decide(f.last_three).fired
                                          THEN decide(f.last_three).value
                                          ELSE fallback(f.third_sample_value, f.last_three).value)

(***************************************************************************)
(* C22. Run independence: two detection runs for different files executed  *)
(* concurrently with arbitrarily interleaved steps share no state: a step  *)
(* of one run leaves the other run's frame as it was, a resumed run finds  *)
(* its frame as it left it, and the rolling window, sample counter,        *)
(* 3rd-sample slot, schedule and decision of each run are those of that    *)
(* run executing alone on its own observations.                            *)
(***************************************************************************)
C22_Step ==
    \/ suspended' = suspended
    \/ /\ suspended' = <<Frame>>
       /\ Frame' = suspended[1]

C22_Independence ==
    /\ [][C22_Step]_vars
    /\ [](\A f \in Frames : AsAlone(f))

\* Both runs have returned, each after its own observations: the 85 s file
\* by a quorum on its 3rd window, the 60 s file by exhaustion of its 2, and
\* with different decisions.
C22_Witness ==
    /\ suspended # None
    /\ pc = "returned" /\ suspended[1].pc = "returned"
    /\ {Len(obs), Len(suspended[1].obs)} = {2, 3}
    /\ {rule, suspended[1].rule} = {"quorum_crop", "best_effort"}
    /\ decision # suspended[1].decision

====
